---------------------------- MODULE Spec2Model ----------------------------
(***************************************************************************)
(* ynab_comparator: the matching engine of ynab_comp/dataframes.py.        *)
(*                                                                         *)
(* compare_ynab_to_bank extracts two DataFrames (ynab, bank) and calls     *)
(* compare_frames twice: compare_frames(bank, ynab), then                  *)
(* compare_frames(ynab, bank).  compare_frames drops rows of its second    *)
(* argument in place, so the two DataFrames are shared mutable state of    *)
(* the two calls.  One action models one iteration of compare_frames'      *)
(* outer loop (one row of frame_1) with the whole inner loop over          *)
(* matching_amount.                                                        *)
(***************************************************************************)
EXTENDS Integers, Sequences, FiniteSets, TLC

VARIABLES
    ynab,              \* the DataFrame extract_ynab_df returned (mutable)
    bank,              \* the DataFrame extraction_function returned (mutable)
    pc,                \* position in compare_ynab_to_bank: the call reached
    pos,               \* position of iterrows() in frame_1 of the running call
    not_found,         \* compare_frames' local not_found of the running call
    in_bank_not_ynab,  \* result of the first call
    in_ynab_not_bank,  \* result of the second call
    raised,            \* the exception that left compare_ynab_to_bank, if any
    ynab_0,            \* history: ynab as extracted
    bank_0,            \* history: bank as extracted
    drops              \* history: the drop() calls, in order

vars == <<ynab, bank, pc, pos, not_found, in_bank_not_ynab, in_ynab_not_bank,
          raised, ynab_0, bank_0, drops>>

-----------------------------------------------------------------------------
(* Bounds of the model. *)

MaxYnab == 2
MaxBank == 2

-----------------------------------------------------------------------------
(* Values. *)

\* pandas' missing value in a text column (an empty cell read by read_csv).
NaN == "<NaN>"

isna(x) == x = NaN

\* A result not yet assigned.
Unset == <<[unset |-> TRUE]>>

NoException == "none"

\* Date texts are modelled by their three "%Y-%m-%d" fields.
Date_0601 == <<2020, 6, 1>>
Date_0525 == <<2020, 5, 25>>      \* 7 days before 2020-06-01
Date_0524 == <<2020, 5, 24>>      \* 8 days before 2020-06-01
Date_0631 == <<2020, 6, 31>>      \* no such day: strptime raises ValueError

\* Description / Memo / Reference texts (lowercased).
RentPayment     == "rent payment"
UnrelatedVendor == "unrelated vendor"
AutogiroHsb     == "autogiro 200601 hsb stockholm"
SwishIca        == "swish 200601 ica maxi stockholm"
KortkopSthlm    == "kortkop 200601 sthlm"


-----------------------------------------------------------------------------
(* datetime.strptime(text, "%Y-%m-%d") and the day difference of two dates. *)

ValueError == "ValueError"
KeyError   == "KeyError"

IsLeap(y) == (y % 4 = 0) /\ ((y % 100 # 0) \/ (y % 400 = 0))

DaysInMonth(y, m) ==
    IF m = 2 THEN (IF IsLeap(y) THEN 29 ELSE 28)
    ELSE IF m \in {4, 6, 9, 11} THEN 30 ELSE 31

RECURSIVE DaysBeforeMonth(_, _)
DaysBeforeMonth(y, m) ==
    IF m <= 1 THEN 0 ELSE DaysBeforeMonth(y, m - 1) + DaysInMonth(y, m - 1)

\* The proleptic Gregorian ordinal of a valid date (date.toordinal()).
ToOrdinal(y, m, d) ==
    LET p == y - 1
    IN  365 * p + (p \div 4) - (p \div 100) + (p \div 400)
        + DaysBeforeMonth(y, m) + d

\* Whether strptime accepts the text; it raises ValueError otherwise.
ParsesOff(text) == TRUE
Parses(text) ==
    LET y == text[1]
        m == text[2]
        d == text[3]
    IN  m \in 1..12 /\ d >= 1 /\ d <= DaysInMonth(y, m)

\* strptime on a text it accepts, as a day number.
strptime(text) == ToOrdinal(text[1], text[2], text[3])

abs(n) == IF n < 0 THEN -n ELSE n

\* `if abs(t_diff.days) > 7: continue`, on two parsed dates.
TooDistantOff(t1, t2) == abs(t1 - t2) > 8
TooDistant(t1, t2) == abs(t1 - t2) > 7

-----------------------------------------------------------------------------
(* thefuzz's fuzz.partial_ratio: an integer 0..100.  The library is not    *)
(* part of the repository; the scores below are the ones it gives on the   *)
(* texts of this model (100 * 2M/T of the best window of the longer text,  *)
(* rounded; 0 when either text is empty; 100 on equal texts).              *)

partial_ratio(s1, s2) ==
    IF s1 = "" \/ s2 = "" THEN 0
    ELSE IF s1 = s2 THEN 100
    ELSE LET p == {s1, s2}
         IN  CASE p = {AutogiroHsb, SwishIca}         -> 66
               [] p = {AutogiroHsb, KortkopSthlm}     -> 65
               [] p = {SwishIca, KortkopSthlm}        -> 45
               [] p = {RentPayment, UnrelatedVendor}  -> 50
               [] p = {AutogiroHsb, RentPayment}      -> 19
               [] p = {AutogiroHsb, UnrelatedVendor}  -> 19
               [] p = {SwishIca, RentPayment}         -> 19
               [] p = {SwishIca, UnrelatedVendor}     -> 9
               [] p = {KortkopSthlm, RentPayment}     -> 25
               [] p = {KortkopSthlm, UnrelatedVendor} -> 12

\* `if f_ratio > 65:`
SimilarEnoughOff(f_ratio) == f_ratio >= 65
SimilarEnoughLow(f_ratio) == f_ratio > 40
SimilarEnough(f_ratio) == f_ratio > 65

-----------------------------------------------------------------------------
(* DataFrames: sequences of rows.  A row is a record of its columns plus   *)
(* idx, its index label.  YNAB rows carry Date, Description, Amount, Memo; *)
(* bank rows carry Date, Description, Reference, Amount.                   *)

Columns(row) == DOMAIN row

\* A row without its index label.
Content(row) == [c \in Columns(row) \ {"idx"} |-> row[c]]

\* frame_2.loc[frame_2["Amount"] == amount_1]: a new frame, in frame order.
matching_amountOff(frame_2, amount_1) == frame_2
matching_amount(frame_2, amount_1) ==
    SelectSeq(frame_2, LAMBDA row : row.Amount = amount_1)

\* frame_2.drop(idx_2, inplace=True): the rows labelled idx_2 leave the frame.
dropAlike(frame, idx_2) ==
    LET dropped == {Content(frame[i]) :
                        i \in {k \in DOMAIN frame : frame[k].idx = idx_2}}
    IN  SelectSeq(frame, LAMBDA row : Content(row) \notin dropped)
dropNone(frame, idx_2) == frame
drop(frame, idx_2) == SelectSeq(frame, LAMBDA row : row.idx # idx_2)

\* `if len(matching_amount) == 1:` uniqueness is considered enough.
UniqueOff(matching) == FALSE
Unique(matching) == Len(matching) = 1

\* `if "Memo" in transaction_2 and not pd.isna(transaction_2["Memo"]):`
HasMemoOff(transaction_2) == FALSE
HasMemo(transaction_2) ==
    "Memo" \in Columns(transaction_2) /\ ~isna(transaction_2.Memo)

\* `if not pd.isna(transaction_1['Reference']):` on a row with that column.
HasReferenceOff(transaction_1) == FALSE
HasReference(transaction_1) == ~isna(transaction_1.Reference)

\* What the body of the inner loop decides for one pair, after the
\* uniqueness test: "drop" (found = True; break), "continue" (next
\* candidate), or the exception it raises.
Disambiguate(transaction_1, transaction_2) ==
    LET t1 == strptime(transaction_1.Date)
        t2 == strptime(transaction_2.Date)
    IN  IF ~Parses(transaction_1.Date) \/ ~Parses(transaction_2.Date)
        THEN ValueError
        ELSE IF TooDistant(t1, t2) THEN "continue"
        ELSE IF SimilarEnough(partial_ratio(transaction_1.Description,
                                            transaction_2.Description))
             THEN "drop"
        ELSE IF HasMemo(transaction_2)
             THEN IF SimilarEnough(partial_ratio(transaction_1.Description,
                                                 transaction_2.Memo))
                  THEN "drop"
                  ELSE IF "Reference" \notin Columns(transaction_1)
                       THEN KeyError
                  ELSE IF HasReference(transaction_1)
                          /\ SimilarEnough(partial_ratio(transaction_1.Reference,
                                                         transaction_2.Memo))
                       THEN "drop"
                  ELSE "continue"
        ELSE "continue"

NoIdx == <<"no row">>

\* `for idx_2, transaction_2 in matching_amount.iterrows():` from position j.
\* The outcome is "drop" with the label dropped, "not found" when the loop
\* ends without a break, or the exception raised.
RECURSIVE InnerLoop(_, _, _)
InnerLoop(transaction_1, matching, j) ==
    IF j > Len(matching)
    THEN [outcome |-> "not found", idx_2 |-> NoIdx]
    ELSE LET transaction_2 == matching[j]
         IN  IF Unique(matching)
             THEN [outcome |-> "drop", idx_2 |-> transaction_2.idx]
             ELSE LET d == Disambiguate(transaction_1, transaction_2)
                  IN  IF d = "drop"
                      THEN [outcome |-> "drop", idx_2 |-> transaction_2.idx]
                      ELSE IF d = "continue"
                      THEN InnerLoop(transaction_1, matching, j + 1)
                      ELSE [outcome |-> d, idx_2 |-> NoIdx]

\* One iteration of the outer loop on transaction_1 against frame_2.
VerifyBackwards(transaction_1, frame_2) ==
    LET matching == matching_amount(frame_2, transaction_1.Amount)
    IN  InnerLoop(transaction_1,
                  [i \in 1..Len(matching) |-> matching[Len(matching) + 1 - i]],
                  1)
Verify(transaction_1, frame_2) ==
    InnerLoop(transaction_1, matching_amount(frame_2, transaction_1.Amount), 1)

\* The row appended to not_found.
missing_row(transaction_1) ==
    [Date |-> transaction_1.Date, Description |-> transaction_1.Description,
     Amount |-> transaction_1.Amount]

\* compare_frames(frame_1, frame_2) as a function of its arguments: what it
\* returns (or the exception it raises) and frame_2 as it leaves it.
RECURSIVE compare_frames_from(_, _, _, _)
compare_frames_from(frame_1, frame_2, k, acc) ==
    IF k > Len(frame_1)
    THEN [result |-> acc, frame_2 |-> frame_2, raised |-> NoException]
    ELSE LET v == Verify(frame_1[k], frame_2)
         IN  IF v.outcome = "drop"
             THEN compare_frames_from(frame_1, drop(frame_2, v.idx_2), k + 1, acc)
             ELSE IF v.outcome = "not found"
             THEN compare_frames_from(frame_1, frame_2, k + 1,
                                      Append(acc, missing_row(frame_1[k])))
             ELSE [result |-> Unset, frame_2 |-> frame_2, raised |-> v.outcome]

compare_frames(frame_1, frame_2) == compare_frames_from(frame_1, frame_2, 1, <<>>)

-----------------------------------------------------------------------------
(* The frames the extraction functions can return. *)

\* extract_ynab_df: columns Date, Description, Amount, Memo.
YnabRows(Dates, Descriptions, Amounts, Memos) ==
    [Date : Dates, Description : Descriptions, Amount : Amounts, Memo : Memos]

\* extract_swedbank_df / extract_ica_df: columns Date, Description,
\* Reference, Amount.
BankRows(Dates, Descriptions, Amounts, References) ==
    [Date : Dates, Description : Descriptions, Amount : Amounts,
     Reference : References]

\* The frames of at most max rows over Rows; read_csv labels the rows of a
\* file with distinct integers, modelled by the row's position.
Frames(Rows, max) ==
    LET Contents == UNION {[1..n -> Rows] : n \in 0..max}
    IN  {[i \in DOMAIN c |-> [idx |-> i] @@ c[i]] : c \in Contents}

-----------------------------------------------------------------------------
(* compare_ynab_to_bank. *)

Calls == {"call_1", "call_2"}

\* The arguments of the running call: compare_frames(bank, ynab), then
\* compare_frames(ynab, bank).
frame_1 == IF pc = "call_1" THEN bank ELSE ynab
frame_2 == IF pc = "call_1" THEN ynab ELSE bank

\* Whether the frame of that name is the object bound to the parameter
\* frame_2 of the running call, the only object compare_frames drops from.
is_frame_2Off(name) == TRUE
is_frame_2(name) == (name = "ynab") <=> (pc = "call_1")

InitWith(YnabFrames, BankFrames) ==
    /\ ynab \in YnabFrames
    /\ bank \in BankFrames
    /\ pc = "call_1"
    /\ pos = 1
    /\ not_found = <<>>
    /\ in_bank_not_ynab = Unset
    /\ in_ynab_not_bank = Unset
    /\ raised = NoException
    /\ ynab_0 = ynab
    /\ bank_0 = bank
    /\ drops = <<>>

\* What one iteration of the outer loop leaves in the history.
Event(v) ==
    [call          |-> pc,
     transaction_1 |-> frame_1[pos],
     before        |-> frame_2,
     matching      |-> matching_amount(frame_2, frame_1[pos].Amount),
     outcome       |-> v.outcome,
     idx_2         |-> v.idx_2]

\* not_found = not_found.append(missing_row, ignore_index=True)
append_missingOff(frame, transaction_1) == frame
append_missing(frame, transaction_1) == Append(frame, missing_row(transaction_1))

\* An iteration that breaks out of the inner loop with found = True.
Found ==
    /\ pc \in Calls
    /\ raised = NoException
    /\ pos <= Len(frame_1)
    /\ LET v == Verify(frame_1[pos], frame_2)
       IN  /\ v.outcome = "drop"
           /\ ynab' = IF is_frame_2("ynab") THEN drop(ynab, v.idx_2) ELSE ynab
           /\ bank' = IF is_frame_2("bank") THEN drop(bank, v.idx_2) ELSE bank
           /\ drops' = Append(drops, Event(v))
    /\ pos' = pos + 1
    /\ UNCHANGED <<pc, not_found, in_bank_not_ynab, in_ynab_not_bank, raised,
                   ynab_0, bank_0>>

\* An iteration whose inner loop ends with found = False.
NotFound ==
    /\ pc \in Calls
    /\ raised = NoException
    /\ pos <= Len(frame_1)
    /\ LET v == Verify(frame_1[pos], frame_2)
       IN  /\ v.outcome = "not found"
           /\ drops' = Append(drops, Event(v))
    /\ not_found' = append_missing(not_found, frame_1[pos])
    /\ pos' = pos + 1
    /\ UNCHANGED <<ynab, bank, pc, in_bank_not_ynab, in_ynab_not_bank, raised,
                   ynab_0, bank_0>>

\* An iteration that raises: the exception leaves compare_frames and
\* compare_ynab_to_bank, which catch nothing.
Raise ==
    /\ pc \in Calls
    /\ raised = NoException
    /\ pos <= Len(frame_1)
    /\ LET v == Verify(frame_1[pos], frame_2)
       IN  /\ v.outcome \in {ValueError, KeyError}
           /\ raised' = v.outcome
           /\ drops' = Append(drops, Event(v))
    /\ UNCHANGED <<ynab, bank, pc, pos, not_found, in_bank_not_ynab,
                   in_ynab_not_bank, ynab_0, bank_0>>

\* in_bank_not_ynab = compare_frames(bank, ynab) returns; the second call,
\* compare_frames(ynab, bank), starts on the frames as they are now.
Return_1 ==
    /\ pc = "call_1"
    /\ raised = NoException
    /\ pos > Len(bank)
    /\ in_bank_not_ynab' = not_found
    /\ pc' = "call_2"
    /\ pos' = 1
    /\ not_found' = <<>>
    /\ UNCHANGED <<ynab, bank, in_ynab_not_bank, raised, ynab_0, bank_0, drops>>

\* in_ynab_not_bank = compare_frames(ynab, bank) returns.
Return_2 ==
    /\ pc = "call_2"
    /\ raised = NoException
    /\ pos > Len(ynab)
    /\ in_ynab_not_bank' = not_found
    /\ pc' = "done"
    /\ UNCHANGED <<ynab, bank, pos, not_found, in_bank_not_ynab, raised,
                   ynab_0, bank_0, drops>>

Next == Found \/ NotFound \/ Raise \/ Return_1 \/ Return_2

-----------------------------------------------------------------------------
(* Specifications: the same program on three families of inputs. *)

\* Amounts, dates and descriptions vary; no Memo, no Reference.
Init ==
    InitWith(Frames(YnabRows({Date_0601, Date_0524},
                             {RentPayment, UnrelatedVendor},
                             {-8000, -150}, {NaN}), MaxYnab),
             Frames(BankRows({Date_0601, Date_0524, Date_0631},
                             {RentPayment},
                             {-8000, -150}, {NaN}), MaxBank))

Spec == Init /\ [][Next]_vars

\* One amount; the dates vary around the 7-day window and may be malformed.
InitDate ==
    InitWith(Frames(YnabRows({Date_0601, Date_0525, Date_0524, Date_0631},
                             {RentPayment, UnrelatedVendor},
                             {-8000}, {NaN}), MaxYnab),
             Frames(BankRows({Date_0601, Date_0525, Date_0524, Date_0631},
                             {RentPayment},
                             {-8000}, {NaN}), MaxBank))

SpecDate == InitDate /\ [][Next]_vars

\* One amount; descriptions, Memo and Reference vary around the threshold.
InitText ==
    InitWith(Frames(YnabRows({Date_0601},
                             {KortkopSthlm, SwishIca},
                             {-8000}, {NaN, SwishIca, KortkopSthlm}), MaxYnab),
             Frames(BankRows({Date_0601, Date_0524, Date_0631},
                             {AutogiroHsb},
                             {-8000}, {NaN, "", KortkopSthlm}), MaxBank))

SpecText == InitText /\ [][Next]_vars

-----------------------------------------------------------------------------
(* Helpers of the properties: the history of one call. *)

EventsOf(call) == SelectSeq(drops, LAMBDA e : e.call = call)

Indices(seq) == 1..Len(seq)

\* The position in e.matching of the row e dropped (0 when it dropped none).
DroppedAt(e) ==
    IF e.outcome = "drop"
    THEN CHOOSE j \in Indices(e.matching) : e.matching[j].idx = e.idx_2
    ELSE 0

\* The candidates the inner loop went through without accepting them.
PassedOver(e) ==
    IF e.outcome = "drop" THEN 1..(DroppedAt(e) - 1)
    ELSE IF e.outcome = "not found" THEN Indices(e.matching)
    ELSE {}

-----------------------------------------------------------------------------
(* C1: in compare_ynab_to_bank the second call, compare_frames(ynab, bank), *)
(* works on the full, original YNAB collection: its result equals          *)
(* compare_frames run on fresh copies of ynab and bank.                    *)

C1_SecondCallOnFreshInputs ==
    pc = "done" =>
        in_ynab_not_bank = compare_frames(ynab_0, bank_0).result

-----------------------------------------------------------------------------
(* C2: within one compare_frames call matching is one-to-one: every        *)
(* candidate row of frame_2 is dropped at most once and by at most one     *)
(* truth row, and two candidates with identical content are separate       *)
(* units: each drop removes exactly the one row accepted.                  *)

Drops(call) == SelectSeq(EventsOf(call), LAMBDA e : e.outcome = "drop")

DroppedLabels(call) == {Drops(call)[i].idx_2 : i \in Indices(Drops(call))}

Without(frame, labels) == SelectSeq(frame, LAMBDA row : row.idx \notin labels)

C2_OneToOne ==
    /\ ynab = Without(ynab_0, DroppedLabels("call_1"))
    /\ bank = Without(bank_0, DroppedLabels("call_2"))
    /\ Len(ynab_0) - Len(ynab) = Len(Drops("call_1"))
    /\ Len(bank_0) - Len(bank) = Len(Drops("call_2"))
    /\ \A call \in Calls :
         \A i, j \in Indices(Drops(call)) :
            i # j => /\ Drops(call)[i].idx_2 # Drops(call)[j].idx_2
                     /\ Drops(call)[i].transaction_1.idx
                            # Drops(call)[j].transaction_1.idx

\* Two candidates of identical content, one consumed and the other left.
C2_Witness ==
    /\ pc = "call_2"
    /\ \E i, j \in Indices(ynab_0) :
          /\ i # j
          /\ Content(ynab_0[i]) = Content(ynab_0[j])
          /\ ynab_0[i].idx \in DroppedLabels("call_1")
          /\ \E k \in Indices(ynab) : ynab[k] = ynab_0[j]

-----------------------------------------------------------------------------
(* C3: when compare_frames returns, every truth record is in exactly one   *)
(* of two classes: matched (it consumed exactly one candidate) or reported *)
(* in the result; the result is the unmatched truth records in truth       *)
(* order (their Date, Description, Amount), so                             *)
(* len(result) + number of consumed candidates = len(truth).               *)

Reported(row) ==
    [Date |-> row.Date, Description |-> row.Description, Amount |-> row.Amount]

MatchedTruth(call) ==
    {Drops(call)[i].transaction_1.idx : i \in Indices(Drops(call))}

Unmatched(truth, call) ==
    LET rest == SelectSeq(truth, LAMBDA row : row.idx \notin MatchedTruth(call))
    IN  [i \in Indices(rest) |-> Reported(rest[i])]

Partitioned(truth, candidates_0, candidates, result, call) ==
    /\ result = Unmatched(truth, call)
    /\ Len(result) + (Len(candidates_0) - Len(candidates)) = Len(truth)
    /\ Len(EventsOf(call)) = Len(truth)
    /\ \A i \in Indices(truth) :
          /\ EventsOf(call)[i].transaction_1 = truth[i]
          /\ EventsOf(call)[i].outcome \in {"drop", "not found"}

C3_MatchedOrReported ==
    /\ pc # "call_1" =>
          Partitioned(bank_0, ynab_0, ynab, in_bank_not_ynab, "call_1")
    /\ pc = "done" =>
          Partitioned(ynab, bank_0, bank, in_ynab_not_bank, "call_2")

\* Both classes occur in a call that has returned.
C3_Witness ==
    /\ pc = "done"
    /\ Len(in_bank_not_ynab) = 1
    /\ Len(Drops("call_1")) = 1
    /\ Len(in_ynab_not_bank) + Len(Drops("call_2")) = 1

-----------------------------------------------------------------------------
(* The rent-payment scenario: the bank holds one -8000 "rent payment" of   *)
(* 2020-06-01; YNAB holds an "unrelated vendor" row of the same day and    *)
(* amount, alone or followed by a "rent payment" row.                      *)

RentInBank(i) ==
    [idx |-> i, Date |-> Date_0601, Description |-> RentPayment,
     Amount |-> -8000, Reference |-> NaN]

VendorInYnab(i) ==
    [idx |-> i, Date |-> Date_0601, Description |-> UnrelatedVendor,
     Amount |-> -8000, Memo |-> NaN]

RentInYnab(i) ==
    [idx |-> i, Date |-> Date_0601, Description |-> RentPayment,
     Amount |-> -8000, Memo |-> NaN]

OnlyVendor ==
    bank_0 = <<RentInBank(1)>> /\ ynab_0 = <<VendorInYnab(1)>>

VendorThenRent ==
    bank_0 = <<RentInBank(1)>> /\ ynab_0 = <<VendorInYnab(1), RentInYnab(2)>>

\* The first call, compare_frames(bank, ynab), has returned.
FirstReturned == pc # "call_1"

(* C4 as stated: a truth record whose only equal-amount candidate has a    *)
(* description similarity that does not exceed 65 (and no secondary-field  *)
(* match) is reported as unmatched: with only the "unrelated vendor"       *)
(* candidate the result is the truth record itself, with both candidates   *)
(* the result is empty.                                                    *)
C4_OnlyCandidateLowSimilarityReported ==
    /\ (FirstReturned /\ OnlyVendor) =>
            in_bank_not_ynab = <<Reported(RentInBank(1))>>
    /\ (FirstReturned /\ VendorThenRent) => in_bank_not_ynab = <<>>

(* C4 amended: a truth record whose only equal-amount candidate has a      *)
(* description similarity that does not exceed 65 is matched all the same  *)
(* (uniqueness is enough): with only the "unrelated vendor" candidate the  *)
(* result is empty and the candidate is consumed; with both candidates the *)
(* result is empty, the "rent payment" candidate is consumed and the       *)
(* "unrelated vendor" one is left.  A truth record is reported for low     *)
(* similarity only when two or more candidates share its amount.           *)
C4_OnlyCandidateMatched ==
    /\ (FirstReturned /\ OnlyVendor) =>
            in_bank_not_ynab = <<>> /\ ynab = <<>>
    /\ (FirstReturned /\ VendorThenRent) =>
            in_bank_not_ynab = <<>> /\ ynab = <<VendorInYnab(1)>>
    /\ \A i \in Indices(drops) :
          drops[i].outcome = "not found" => Len(drops[i].matching) # 1

\* The scenario with the single low-similarity candidate has run.
C4_Witness ==
    /\ FirstReturned
    /\ OnlyVendor
    /\ partial_ratio(bank_0[1].Description, ynab_0[1].Description) <= 65
    /\ Len(Drops("call_1")) = 1

-----------------------------------------------------------------------------
(* C5: for a truth record t, if exactly one of the currently unconsumed    *)
(* candidates has amount equal to t.amount, that candidate is accepted and *)
(* consumed whatever its date distance or text similarity to t; the count  *)
(* is over the candidates remaining when t is processed, not over the      *)
(* original candidate set.                                                 *)

Candidates_0(call) == IF call = "call_1" THEN ynab_0 ELSE bank_0

\* The labels the events before the i-th of a call dropped.
DroppedBefore(call, i) ==
    {EventsOf(call)[k].idx_2 :
        k \in {n \in 1..(i - 1) : EventsOf(call)[n].outcome = "drop"}}

\* The candidates unconsumed when the i-th truth record of a call is processed.
Remaining(call, i) == Without(Candidates_0(call), DroppedBefore(call, i))

SameAmount(frame, row) == {j \in Indices(frame) : frame[j].Amount = row.Amount}

C5_UniqueAmountAccepted ==
    \A call \in Calls : \A i \in Indices(EventsOf(call)) :
        LET e    == EventsOf(call)[i]
            rest == Remaining(call, i)
            same == SameAmount(rest, e.transaction_1)
        IN  /\ e.before = rest
            /\ Cardinality(same) = 1 =>
                  /\ e.outcome = "drop"
                  /\ \A j \in same : e.idx_2 = rest[j].idx

\* A candidate accepted as the only one left of its amount, of two at the
\* start, 8 days from the truth record and with a description scoring 50.
C5_Witness ==
    \E i \in Indices(EventsOf("call_1")) :
        LET e == EventsOf("call_1")[i]
        IN  /\ e.outcome = "drop"
            /\ Cardinality(SameAmount(e.before, e.transaction_1)) = 1
            /\ Cardinality(SameAmount(ynab_0, e.transaction_1)) = 2
            /\ \E j \in Indices(ynab_0) :
                  /\ ynab_0[j].idx = e.idx_2
                  /\ abs(strptime(ynab_0[j].Date)
                           - strptime(e.transaction_1.Date)) > 7
                  /\ partial_ratio(ynab_0[j].Description,
                                   e.transaction_1.Description) <= 65

-----------------------------------------------------------------------------
(* Helpers of the properties on one pair (truth record, candidate). *)

BothParse(t, c) == Parses(t.Date) /\ Parses(c.Date)

DaysApart(t, c) == abs(strptime(t.Date) - strptime(c.Date))

DescriptionScore(t, c) == partial_ratio(t.Description, c.Description)

\* The row an event dropped.
DroppedRow(e) == e.matching[DroppedAt(e)]

\* More than one unconsumed candidate has the truth record's amount.
Ambiguous(e) == Len(e.matching) > 1

(* C6 as stated: two records with identical amount and description         *)
(* similarity above 65 whose dates are 8 or more days apart are never      *)
(* matched to each other, whereas 7 days apart or less the pair is         *)
(* eligible for the text-similarity rules.                                 *)
C6_DistantNeverMatched ==
    \A i \in Indices(drops) :
        LET e == drops[i]
        IN  /\ e.outcome = "drop" =>
                  ~ (/\ BothParse(e.transaction_1, DroppedRow(e))
                     /\ DescriptionScore(e.transaction_1, DroppedRow(e)) > 65
                     /\ DaysApart(e.transaction_1, DroppedRow(e)) >= 8)
            /\ \A j \in PassedOver(e) :
                  ~ (/\ DescriptionScore(e.transaction_1, e.matching[j]) > 65
                     /\ DaysApart(e.transaction_1, e.matching[j]) <= 7)

(* C6 amended: when more than one unconsumed candidate has the truth       *)
(* record's amount, two records with description similarity above 65      *)
(* whose dates are 8 or more days apart are never matched to each other,   *)
(* whereas 7 days apart or less the candidate, once reached, is accepted   *)
(* by the description rule.  (A candidate that is the only one of its      *)
(* amount is matched whatever the dates.)                                  *)
C6_WindowUnderAmbiguity ==
    \A i \in Indices(drops) :
        LET e == drops[i]
        IN  Ambiguous(e) =>
              /\ e.outcome = "drop" =>
                    /\ BothParse(e.transaction_1, DroppedRow(e))
                    /\ DaysApart(e.transaction_1, DroppedRow(e)) <= 7
              /\ \A j \in PassedOver(e) :
                    ~ (/\ DescriptionScore(e.transaction_1, e.matching[j]) > 65
                       /\ DaysApart(e.transaction_1, e.matching[j]) <= 7)

\* Under ambiguity, an equal-description candidate 8 days away is passed
\* over and the next one, 7 days away, is accepted.
C6_Witness ==
    \E i \in Indices(drops) :
        LET e == drops[i]
        IN  /\ Ambiguous(e)
            /\ e.outcome = "drop"
            /\ DroppedAt(e) = 2
            /\ DescriptionScore(e.transaction_1, e.matching[1]) > 65
            /\ DaysApart(e.transaction_1, e.matching[1]) = 8
            /\ DescriptionScore(e.transaction_1, e.matching[2]) > 65
            /\ DaysApart(e.transaction_1, e.matching[2]) = 7

-----------------------------------------------------------------------------
\* The candidate carries a Memo that scores above 65 against the truth
\* record's description, or against its Reference.
MemoScoresAbove65(t, c) ==
    /\ "Memo" \in DOMAIN c
    /\ c.Memo # NaN
    /\ \/ partial_ratio(t.Description, c.Memo) > 65
       \/ /\ "Reference" \in DOMAIN t
          /\ t.Reference # NaN
          /\ partial_ratio(t.Reference, c.Memo) > 65

(* C7 as stated: the similarity threshold is strict: a candidate whose     *)
(* similarity score to the truth record is exactly 65 is not accepted, and *)
(* a candidate with score 66 is accepted when the date window passes.      *)
C7_StrictThreshold ==
    \A i \in Indices(drops) :
        LET e == drops[i]
        IN  /\ e.outcome = "drop" =>
                  ~ (/\ DescriptionScore(e.transaction_1, DroppedRow(e)) = 65
                     /\ ~MemoScoresAbove65(e.transaction_1, DroppedRow(e)))
            /\ \A j \in PassedOver(e) :
                  ~ (/\ DescriptionScore(e.transaction_1, e.matching[j]) = 66
                     /\ DaysApart(e.transaction_1, e.matching[j]) <= 7)

(* C7 amended: when more than one unconsumed candidate has the truth       *)
(* record's amount, the similarity threshold is strict: a candidate whose  *)
(* description scores exactly 65 is not accepted (unless its Memo scores   *)
(* above 65), and a candidate with score 66, once reached, is accepted     *)
(* when the date window passes.  (A candidate that is the only one of its  *)
(* amount is accepted whatever its score.)                                 *)
C7_StrictUnderAmbiguity ==
    \A i \in Indices(drops) :
        LET e == drops[i]
        IN  Ambiguous(e) =>
              /\ e.outcome = "drop" =>
                    ~ (/\ DescriptionScore(e.transaction_1, DroppedRow(e)) = 65
                       /\ ~MemoScoresAbove65(e.transaction_1, DroppedRow(e)))
              /\ \A j \in PassedOver(e) :
                    ~ (/\ DescriptionScore(e.transaction_1, e.matching[j]) = 66
                       /\ DaysApart(e.transaction_1, e.matching[j]) <= 7)

\* Under ambiguity a candidate scoring 65, inside the window, is passed over
\* and the next one, scoring 66, is accepted.
C7_Witness ==
    \E i \in Indices(drops) :
        LET e == drops[i]
        IN  /\ Ambiguous(e)
            /\ e.outcome = "drop"
            /\ DroppedAt(e) = 2
            /\ DescriptionScore(e.transaction_1, e.matching[1]) = 65
            /\ DaysApart(e.transaction_1, e.matching[1]) <= 7
            /\ DescriptionScore(e.transaction_1, e.matching[2]) = 66

-----------------------------------------------------------------------------
\* The secondary text of a row: the Memo of a YNAB row, the Reference of a
\* bank row; NaN when the cell is empty.
Secondary(row) == IF "Memo" \in DOMAIN row THEN row.Memo ELSE row.Reference

Present(text) == text # NaN /\ text # ""

InWindow(t, c) == BothParse(t, c) /\ DaysApart(t, c) <= 7

(* C8 as stated: whichever source is the truth, when several candidates    *)
(* share t's amount, c is within the 7-day window, the description rule    *)
(* did not accept, and c has a present, non-empty secondary text (memo or  *)
(* reference) whose similarity to t.description exceeds 65, c is accepted  *)
(* and consumed.                                                           *)
C8_SecondaryFallbackEitherWay ==
    \A i \in Indices(drops) :
        LET e == drops[i]
        IN  Ambiguous(e) =>
              \A j \in PassedOver(e) :
                  ~ (/\ InWindow(e.transaction_1, e.matching[j])
                     /\ Present(Secondary(e.matching[j]))
                     /\ partial_ratio(e.transaction_1.Description,
                                      Secondary(e.matching[j])) > 65)

(* C8 amended: the fallback holds when the candidates are YNAB rows (the   *)
(* bank is the truth): when several candidates share t's amount, c is      *)
(* within the 7-day window, the description rule did not accept, and c     *)
(* has a present Memo whose similarity to t.description exceeds 65, c is   *)
(* accepted and consumed.  The Reference of a bank candidate is never      *)
(* consulted: with YNAB as the truth only the description rule accepts.    *)
C8_MemoFallback ==
    \A i \in Indices(drops) :
        LET e == drops[i]
        IN  Ambiguous(e) =>
              /\ \A j \in PassedOver(e) :
                    ~ (/\ InWindow(e.transaction_1, e.matching[j])
                       /\ "Memo" \in DOMAIN e.matching[j]
                       /\ Present(e.matching[j].Memo)
                       /\ partial_ratio(e.transaction_1.Description,
                                        e.matching[j].Memo) > 65)
              /\ (e.call = "call_2" /\ e.outcome = "drop") =>
                    DescriptionScore(e.transaction_1, DroppedRow(e)) > 65

\* A candidate whose description scores 65 is accepted for its Memo, which
\* scores 66 against the truth record's description.
C8_Witness ==
    \E i \in Indices(drops) :
        LET e == drops[i]
        IN  /\ Ambiguous(e)
            /\ e.outcome = "drop"
            /\ InWindow(e.transaction_1, DroppedRow(e))
            /\ DescriptionScore(e.transaction_1, DroppedRow(e)) <= 65
            /\ Present(DroppedRow(e).Memo)
            /\ partial_ratio(e.transaction_1.Description, DroppedRow(e).Memo) = 66

-----------------------------------------------------------------------------
(* C9 as stated: when rules (b) and (c) did not accept a candidate c       *)
(* inside the date window and the truth record t has a present, non-empty  *)
(* secondary text, c is accepted and consumed if the similarity between    *)
(* t's secondary text and c's secondary text exceeds 65; the rule is       *)
(* evaluated for any t that carries a secondary text, and a truth record   *)
(* without a secondary field skips it without error.                       *)
C9_CrossFallbackAnyTruth ==
    /\ raised # KeyError
    /\ \A i \in Indices(drops) :
          LET e == drops[i]
          IN  Ambiguous(e) =>
                \A j \in PassedOver(e) :
                    ~ (/\ InWindow(e.transaction_1, e.matching[j])
                       /\ Present(Secondary(e.transaction_1))
                       /\ Present(Secondary(e.matching[j]))
                       /\ partial_ratio(Secondary(e.transaction_1),
                                        Secondary(e.matching[j])) > 65)

(* C9 amended: the rule compares the Reference of a bank truth record with *)
(* the Memo of a YNAB candidate: when rules (b) and (c) did not accept a   *)
(* candidate c inside the date window, c has a present Memo and t has a    *)
(* present Reference, c is accepted and consumed if the similarity between *)
(* t's Reference and c's Memo exceeds 65.  With YNAB as the truth the rule *)
(* is not evaluated, whatever Memo t carries; a truth record without a     *)
(* Reference skips it without error.                                       *)
C9_ReferenceMemoFallback ==
    /\ raised # KeyError
    /\ \A i \in Indices(drops) :
          LET e == drops[i]
          IN  Ambiguous(e) =>
                \A j \in PassedOver(e) :
                    ~ (/\ InWindow(e.transaction_1, e.matching[j])
                       /\ "Reference" \in DOMAIN e.transaction_1
                       /\ Present(e.transaction_1.Reference)
                       /\ "Memo" \in DOMAIN e.matching[j]
                       /\ Present(e.matching[j].Memo)
                       /\ partial_ratio(e.transaction_1.Reference,
                                        e.matching[j].Memo) > 65)
    /\ \A i \in Indices(Drops("call_2")) :
          LET e == Drops("call_2")[i]
          IN  Ambiguous(e) =>
                partial_ratio(e.transaction_1.Description,
                              DroppedRow(e).Description) > 65

\* A candidate accepted for its Memo against the truth record's Reference
\* alone: its description and its Memo score 65 against t's description.
C9_Witness ==
    \E i \in Indices(drops) :
        LET e == drops[i]
        IN  /\ Ambiguous(e)
            /\ e.outcome = "drop"
            /\ InWindow(e.transaction_1, DroppedRow(e))
            /\ DescriptionScore(e.transaction_1, DroppedRow(e)) <= 65
            /\ Present(DroppedRow(e).Memo)
            /\ partial_ratio(e.transaction_1.Description, DroppedRow(e).Memo) <= 65
            /\ Present(e.transaction_1.Reference)
            /\ partial_ratio(e.transaction_1.Reference, DroppedRow(e).Memo) > 65

-----------------------------------------------------------------------------
\* The date texts of the model that name no day of the calendar.
Malformed(text) == text \notin {Date_0601, Date_0525, Date_0524}

\* A date text strptime cannot interpret, on the truth record or on one of
\* the candidates handed to the call and still unconsumed.
MalformedIn(e) ==
    \/ Malformed(e.transaction_1.Date)
    \/ \E j \in Indices(e.before) : Malformed(e.before[j].Date)

(* C10 as stated: if any record handed to compare_frames has a date that   *)
(* cannot be interpreted, the error is propagated immediately to the       *)
(* caller and the pass is aborted with no partial result returned; no      *)
(* malformed record is silently matched or reported as missing.            *)
C10_MalformedDateAborts ==
    /\ \A i \in Indices(drops) :
          MalformedIn(drops[i]) => drops[i].outcome = ValueError
    /\ raised # NoException =>
          /\ in_ynab_not_bank = Unset
          /\ pc = "call_1" => in_bank_not_ynab = Unset

(* C10 amended: a date is interpreted only while disambiguating.  When     *)
(* more than one unconsumed candidate has the truth record's amount and    *)
(* the truth record's date, or the date of the first such candidate,       *)
(* cannot be interpreted, ValueError is propagated immediately and the     *)
(* pass is aborted with no partial result returned.  A truth record with   *)
(* no candidate of its amount, or with exactly one, is reported as missing *)
(* or matched without its date being looked at, and so is its candidate.   *)
C10_ValueErrorWhileDisambiguating ==
    /\ \A i \in Indices(drops) :
          LET e == drops[i]
          IN  /\ (/\ Ambiguous(e)
                  /\ \/ Malformed(e.transaction_1.Date)
                     \/ Malformed(e.matching[1].Date))
                     => e.outcome = ValueError
              /\ e.outcome = ValueError =>
                    /\ Ambiguous(e)
                    /\ i = Len(drops)
                    /\ raised = ValueError
                    /\ \/ Malformed(e.transaction_1.Date)
                       \/ \E j \in Indices(e.matching) :
                             Malformed(e.matching[j].Date)
              /\ ~Ambiguous(e) =>
                    e.outcome = IF Len(e.matching) = 1 THEN "drop"
                                ELSE "not found"
    /\ raised # NoException =>
          /\ in_ynab_not_bank = Unset
          /\ pc = "call_1" => in_bank_not_ynab = Unset

\* A pass aborted by ValueError on a candidate's date, the truth record's
\* own date being well formed.
C10_Witness ==
    /\ raised = ValueError
    /\ pc = "call_1"
    /\ in_bank_not_ynab = Unset
    /\ ~Malformed(drops[Len(drops)].transaction_1.Date)
    /\ Malformed(drops[Len(drops)].matching[2].Date)

-----------------------------------------------------------------------------
(* C11: compare_frames(frame_1, frame_2) never mutates the truth           *)
(* collection frame_1: every step of a call leaves frame_1 with the same   *)
(* records in the same order; only frame_2 loses rows.                     *)

\* frame is what is left of before after some rows were taken out.
Shrunk(frame, before) ==
    \E labels \in SUBSET {before[i].idx : i \in Indices(before)} :
        frame = Without(before, labels)

C11_TruthNotMutated ==
    [][/\ pc = "call_1" => bank' = bank /\ Shrunk(ynab', ynab)
       /\ pc = "call_2" => ynab' = ynab /\ Shrunk(bank', bank)]_vars

\* Both calls have consumed candidates; the truth of the first call is as
\* it was extracted and the truth of the second is as the first left it.
C11_Witness ==
    /\ pc = "done"
    /\ Len(Drops("call_1")) >= 1
    /\ Len(Drops("call_2")) >= 1
    /\ Len(ynab) < Len(ynab_0)
    /\ Len(bank) < Len(bank_0)

-----------------------------------------------------------------------------
(* C12: under ambiguity (more than one unconsumed candidate with the truth *)
(* record's amount) the candidate consumed is the first one, in the        *)
(* candidate collection's order, that is inside the date window and        *)
(* satisfies an accepting rule; no later candidate is consumed for that    *)
(* truth record even if its similarity score is higher, and the candidates *)
(* earlier in the order, which were rejected, stay unconsumed.             *)

\* The candidate is inside the date window and one of the rules accepts it.
Accepts(t, c) ==
    /\ InWindow(t, c)
    /\ DescriptionScore(t, c) > 65 \/ MemoScoresAbove65(t, c)

Max(a, b) == IF a >= b THEN a ELSE b

\* The highest of the scores the rules can compute for the pair.
BestScore(t, c) ==
    LET memo == IF "Memo" \in DOMAIN c /\ c.Memo # NaN
                THEN partial_ratio(t.Description, c.Memo) ELSE 0
        ref  == IF /\ "Memo" \in DOMAIN c /\ c.Memo # NaN
                   /\ "Reference" \in DOMAIN t /\ t.Reference # NaN
                THEN partial_ratio(t.Reference, c.Memo) ELSE 0
    IN  Max(DescriptionScore(t, c), Max(memo, ref))

\* The candidate frame of a call as its n-th iteration left it.
After(call, n) ==
    IF n < Len(EventsOf(call)) THEN EventsOf(call)[n + 1].before
    ELSE IF call = "call_1" THEN ynab ELSE bank

C12_FirstAcceptedWins ==
    \A call \in Calls : \A n \in Indices(EventsOf(call)) :
        LET e == EventsOf(call)[n]
            t == e.transaction_1
        IN  Ambiguous(e) =>
              /\ e.outcome = "drop" =>
                    /\ Accepts(t, DroppedRow(e))
                    /\ \A j \in 1..(DroppedAt(e) - 1) :
                          /\ ~Accepts(t, e.matching[j])
                          /\ \E k \in Indices(After(call, n)) :
                                After(call, n)[k] = e.matching[j]
                    /\ After(call, n) = Without(e.before, {DroppedRow(e).idx})
              /\ e.outcome = "not found" =>
                    /\ \A j \in Indices(e.matching) : ~Accepts(t, e.matching[j])
                    /\ After(call, n) = e.before

\* In the first call the first of two acceptable candidates was consumed
\* though the second scores higher; in the second call the first candidate
\* was rejected, the second consumed, and the first is still in the frame.
C12_Witness ==
    /\ pc = "done"
    /\ \E n \in Indices(EventsOf("call_1")) :
          LET e == EventsOf("call_1")[n]
          IN  /\ Ambiguous(e)
              /\ e.outcome = "drop"
              /\ DroppedAt(e) = 1
              /\ Accepts(e.transaction_1, e.matching[2])
              /\ BestScore(e.transaction_1, e.matching[2])
                    > BestScore(e.transaction_1, e.matching[1])
              /\ \E k \in Indices(ynab) : ynab[k] = e.matching[2]
    /\ \E n \in Indices(EventsOf("call_2")) :
          LET e == EventsOf("call_2")[n]
          IN  /\ Ambiguous(e)
              /\ e.outcome = "drop"
              /\ DroppedAt(e) = 2
              /\ \E k \in Indices(bank) : bank[k] = e.matching[1]

-----------------------------------------------------------------------------
(* C13: a truth record is only ever matched with a candidate whose amount  *)
(* is exactly equal to its own, and a truth record for which no unconsumed *)
(* candidate has an equal amount is reported missing; consequently         *)
(* compare_frames with empty truth returns an empty result and with empty  *)
(* candidates returns every truth record.                                  *)

\* The records of a frame as compare_frames reports them.
AllReported(frame) == [i \in Indices(frame) |-> Reported(frame[i])]

\* The truth frame of the second call, as the first call left ynab.
Truth_2 == Without(ynab_0, DroppedLabels("call_1"))

C13_ExactAmount ==
    /\ \A call \in Calls : \A n \in Indices(EventsOf(call)) :
          LET e == EventsOf(call)[n]
              t == e.transaction_1
          IN  /\ e.outcome = "drop" =>
                    /\ \E k \in Indices(e.before) : e.before[k].idx = e.idx_2
                    /\ \A k \in Indices(e.before) :
                          e.before[k].idx = e.idx_2 =>
                              e.before[k].Amount = t.Amount
              /\ SameAmount(e.before, t) = {} =>
                    /\ e.outcome = "not found"
                    /\ After(call, n) = e.before
                    /\ (call = "call_1" /\ pc # "call_1") =>
                          \E k \in Indices(in_bank_not_ynab) :
                              in_bank_not_ynab[k] = Reported(t)
                    /\ (call = "call_2" /\ pc = "done") =>
                          \E k \in Indices(in_ynab_not_bank) :
                              in_ynab_not_bank[k] = Reported(t)
    /\ pc # "call_1" =>
          /\ bank_0 = <<>> => in_bank_not_ynab = <<>>
          /\ ynab_0 = <<>> => in_bank_not_ynab = AllReported(bank_0)
    /\ pc = "done" =>
          /\ Truth_2 = <<>> => in_ynab_not_bank = <<>>
          /\ bank_0 = <<>> => in_ynab_not_bank = AllReported(Truth_2)

\* The first call reported a truth record that had candidates, none of its
\* amount, and matched another; the second call ran on an empty truth and
\* returned an empty result.
C13_Witness ==
    /\ pc = "done"
    /\ \E n \in Indices(EventsOf("call_1")) :
          LET e == EventsOf("call_1")[n]
          IN  /\ e.outcome = "not found"
              /\ e.before # <<>>
              /\ SameAmount(e.before, e.transaction_1) = {}
    /\ Len(Drops("call_1")) >= 1
    /\ ynab = <<>>
    /\ bank # <<>>
    /\ in_ynab_not_bank = <<>>

-----------------------------------------------------------------------------
(* C14: throughout a compare_frames call the candidate working set only    *)
(* shrinks: at every step it is a subset of the initial candidate set, no  *)
(* record is ever added or altered, a row is removed only at the moment it *)
(* is accepted as the match of the truth record being processed, and a     *)
(* removed row is never considered for any later truth record in the same  *)
(* pass.                                                                   *)

Labels(frame) == {frame[k].idx : k \in Indices(frame)}

C14_CandidatesOnlyShrink ==
    \A call \in Calls : \A n \in Indices(EventsOf(call)) :
        LET e     == EventsOf(call)[n]
            after == After(call, n)
        IN  /\ Shrunk(e.before, Candidates_0(call))
            /\ Shrunk(after, e.before)
            /\ \A j \in Indices(e.matching) :
                  \E k \in Indices(e.before) : e.before[k] = e.matching[j]
            /\ e.outcome # "drop" => after = e.before
            /\ e.outcome = "drop" =>
                  /\ e.idx_2 \in Labels(e.matching)
                  /\ Labels(after) = Labels(e.before) \ {e.idx_2}
                  /\ Len(after) = Len(e.before) - 1
                  /\ \A m \in (n + 1)..Len(EventsOf(call)) :
                        /\ e.idx_2 \notin Labels(EventsOf(call)[m].before)
                        /\ e.idx_2 \notin Labels(EventsOf(call)[m].matching)

\* A candidate consumed by one truth record is gone when a later truth
\* record of the same amount is processed, which is reported for want of it.
C14_Witness ==
    \E n, m \in Indices(EventsOf("call_1")) :
        LET e     == EventsOf("call_1")[n]
            later == EventsOf("call_1")[m]
        IN  /\ n < m
            /\ e.outcome = "drop"
            /\ later.transaction_1.Amount = e.transaction_1.Amount
            /\ later.outcome = "not found"
            /\ later.matching = <<>>
            /\ later.before # <<>>
            /\ Len(later.before) < Len(ynab_0)

=============================================================================
